---------------------------- MODULE Spec2Model ----------------------------
(***************************************************************************)
(* A model of the superclaims backend: the claim orchestration pipeline    *)
(* (agents/orchestrator.py), the validator (agents/validator_agent.py),    *)
(* the filename classifier (agents/classifier_agent.py) and the upload     *)
(* handler (main.py, utils/helpers.py).                                    *)
(*                                                                         *)
(* Encoding of Python values:                                              *)
(*   - a str that the code inspects (a filename, a patient name) is a      *)
(*     sequence of one-character strings, so that lower(), strip(),        *)
(*     endswith() and `kw in s` are computed, not assumed;                 *)
(*   - a str that the code only compares with == or tests for emptiness    *)
(*     (policy_number, member_id, a message) is a TLA+ string;             *)
(*   - a date string is the triple <<year, month, day>> of the numbers it  *)
(*     spells, <<0, 0, 0>> standing for text that is no date at all;       *)
(*   - a float amount is an integer; a confidence score is in hundredths.  *)
(***************************************************************************)
EXTENDS Integers, Sequences, FiniteSets, TLC

VARIABLES
    \* ---- a direct call of ValidatorAgent.validate followed by _make_decision
    v_pc,            \* "idle" | "call" | "validated" | "decided"
    arg_documents,   \* the documents list handed to validate and _make_decision
    ret_validation,  \* the ValidationResult validate returned
    ret_decision,    \* the ClaimDecision _make_decision returned
    \* ---- a direct call of ClassifierAgent.classify
    c_pc,               \* "idle" | "call" | "llm" | "done"
    arg_filename,       \* the filename handed to classify
    ret_classification, \* the tag classify returned
    llm_calls,          \* calls of LLMService.get_completion made by classify
    \* ---- the service: main.py's handler and ClaimOrchestrator.process_claim
    orchestrator,       \* "ready" | "None": the module-level orchestrator
    h_pc,               \* the handler: "idle" | "received" | "validated" | "staged"
                        \*   | "processing" | "done"
    files,              \* the uploaded batch: <<[filename, size, content]>>
    staged,             \* the temporary directory: path -> content
    file_paths,         \* <<[path, filename]>>
    n_writes,           \* files written to the temporary directory, this request
    orch_calls,         \* calls of orchestrator.process_claim, this request
    o_pc,               \* process_claim: "idle" | "classify" | "extract" | "route"
                        \*   | "extracting" | "returned" | "raised"
    cls_state,          \* per file, the classify task: "pending" | "llm" | "done"
                        \*   | "hung"
    cls_result,         \* per file, what its classify task returned
    classifications,    \* the list _classify_documents returned
    ext_state,          \* per file, the extract_text task: "pending" | "done"
                        \*   | "failed" | "hung"
    ext_data,           \* per file, the bytes its task read from the path
    ext_result,         \* per file, the text its task returned, or the exception
    extracted_texts,    \* the list gather returned for the extraction tasks
    done_order,         \* the tasks of the stage under way, in completion order
    route_i,            \* the index of the routing loop
    routed,             \* the extractor calls made: <<[file, doc_type, text, filename]>>
    documents,          \* the documents list of process_claim
    doc_origin,         \* per document, the index of the file it was extracted from
    error,              \* the exception process_claim raised: "none" or its kind
    external_failures,  \* failed external-collaborator calls, this request
    completed_out_of_order, \* a task completed before a task of an earlier file
    hung,               \* the external calls of this request that never return
    n_calls,            \* per stage and file, the external calls issued
    response            \* the HTTP response of the handler

v_vars == <<v_pc, arg_documents, ret_validation, ret_decision>>

c_vars == <<c_pc, arg_filename, ret_classification, llm_calls>>

h_vars == <<orchestrator, h_pc, files, staged, file_paths, n_writes, orch_calls, response>>

o_vars ==
    <<o_pc, cls_state, cls_result, classifications, ext_state, ext_data, ext_result,
      extracted_texts, done_order, route_i, routed, documents, doc_origin,
      error, external_failures,
      completed_out_of_order, hung, n_calls>>

vars == <<v_vars, c_vars, h_vars, o_vars>>

\* ------------------------------------------------------------------ bounds

\* Longest documents list handed to validate in the direct-call specification.
MaxDocs == 3

\* Most words in a filename handed to classify in the direct-call specification.
MaxWords == 2

\* Most files in an uploaded batch.
MaxFiles == 3

\* ----------------------------------------------------------------- helpers

None == <<"<None>">>

Range(s) == {s[i] : i \in 1..Len(s)}

Min(a, b) == IF a < b THEN a ELSE b

\* All sequences of length 0..n over S.
SeqsUpTo(S, n) == UNION {[1..k -> S] : k \in 0..n}

\* All orderings of the finite set S as sequences without repetition.
Orderings(S) ==
    {s \in [1..Cardinality(S) -> S] : \A i, j \in 1..Cardinality(S) : i # j => s[i] # s[j]}

\* All reorderings of the sequence s.
Reorderings(s) ==
    {[i \in 1..Len(s) |-> s[p[i]]] : p \in Orderings(1..Len(s))}

\* sep.join(xs) for a list of strings, as the list of its pieces.
RECURSIVE join(_, _)
join(sep, xs) ==
    IF Len(xs) = 0 THEN <<>>
    ELSE IF Len(xs) = 1 THEN <<xs[1]>>
    ELSE <<xs[1], sep>> \o join(sep, Tail(xs))

\* ------------------------------------------------------- str operations

lower_char(c) ==
    CASE c = "A" -> "a" [] c = "B" -> "b" [] c = "C" -> "c" [] c = "D" -> "d"
      [] c = "E" -> "e" [] c = "F" -> "f" [] c = "G" -> "g" [] c = "H" -> "h"
      [] c = "I" -> "i" [] c = "J" -> "j" [] c = "K" -> "k" [] c = "L" -> "l"
      [] c = "M" -> "m" [] c = "N" -> "n" [] c = "O" -> "o" [] c = "P" -> "p"
      [] c = "Q" -> "q" [] c = "R" -> "r" [] c = "S" -> "s" [] c = "T" -> "t"
      [] c = "U" -> "u" [] c = "V" -> "v" [] c = "W" -> "w" [] c = "X" -> "x"
      [] c = "Y" -> "y" [] c = "Z" -> "z"
      [] OTHER -> c

\* str.lower()
lower(s) == [i \in 1..Len(s) |-> lower_char(s[i])]

is_space(c) == c \in {" ", "\t", "\n", "\r"}

\* str.strip(): drops leading and trailing whitespace, keeps inner whitespace.
RECURSIVE lstrip(_)
lstrip(s) == IF Len(s) > 0 /\ is_space(s[1]) THEN lstrip(Tail(s)) ELSE s

RECURSIVE rstrip(_)
rstrip(s) ==
    IF Len(s) > 0 /\ is_space(s[Len(s)]) THEN rstrip(SubSeq(s, 1, Len(s) - 1)) ELSE s

strip(s) == rstrip(lstrip(s))

\* `kw in s` for two strs: kw occurs in s as a contiguous substring.
contains(s, kw) ==
    \E i \in 1..(Len(s) - Len(kw) + 1) : SubSeq(s, i, i + Len(kw) - 1) = kw

\* s.endswith(end)
endswith(s, end) ==
    /\ Len(s) >= Len(end)
    /\ SubSeq(s, Len(s) - Len(end) + 1, Len(s)) = end

\* s.rfind(c) + 1: the last position of the character c in s, 0 if it has none.
rfind(s, c) ==
    IF \E k \in 1..Len(s) : s[k] = c
    THEN CHOOSE k \in 1..Len(s) : s[k] = c /\ \A j \in (k + 1)..Len(s) : s[j] # c
    ELSE 0

\* PurePath.name: the last component of the path.
name_of(path) == SubSeq(path, rfind(path, "/") + 1, Len(path))

\* PurePath.suffix: the name from its last dot on, and nothing where the name
\* has no dot, starts with its only dot or ends with a dot.
suffix(path) ==
    LET name == name_of(path)
        k == rfind(name, ".")
    IN  IF 1 < k /\ k < Len(name) THEN SubSeq(name, k, Len(name)) ELSE <<>>

\* Python truthiness of an Optional[str].
truthy(s) == s # None /\ s # <<>>


\* ------------------------------------------------------------ data model

\* A variant that leaves the ID card out of the required types.
required_types_without_id_card == {"bill", "discharge_summary"}

required_types == {"bill", "discharge_summary", "id_card"}

BillDocument(total_amount, patient_name) ==
    [type |-> "bill", hospital_name |-> "General Hospital", total_amount |-> total_amount,
     date_of_service |-> <<2024, 1, 5>>, patient_name |-> patient_name]

DischargeSummaryDocument(patient_name, admission_date, discharge_date) ==
    [type |-> "discharge_summary", patient_name |-> patient_name, diagnosis |-> "Flu",
     admission_date |-> admission_date, discharge_date |-> discharge_date]

IDCardDocument(patient_name, policy_number, member_id) ==
    [type |-> "id_card", patient_name |-> patient_name,
     policy_number |-> policy_number, member_id |-> member_id]

ValidationResult(missing_documents, discrepancies) ==
    [missing_documents |-> missing_documents, discrepancies |-> discrepancies]

ClaimDecision(status, reason, confidence_score) ==
    [status |-> status, reason |-> reason, confidence_score |-> confidence_score]

\* The placeholder records the extractors return when extraction fails.
BillSentinel ==
    [type |-> "bill", hospital_name |-> "Unknown Hospital", total_amount |-> 0,
     date_of_service |-> <<2024, 1, 1>>, patient_name |-> None]

DischargeSentinel ==
    [type |-> "discharge_summary",
     patient_name |-> <<"U", "n", "k", "n", "o", "w", "n", " ", "P", "a", "t", "i", "e", "n", "t">>,
     diagnosis |-> "Unknown", admission_date |-> <<2024, 1, 1>>,
     discharge_date |-> <<2024, 1, 2>>]

IDCardSentinel ==
    [type |-> "id_card", patient_name |-> <<"U", "n", "k", "n", "o", "w", "n">>,
     policy_number |-> "UNKNOWN", member_id |-> "UNKNOWN"]

\* -------------------------------------------------- datetime.strptime

ParseError == <<-1, -1, -1>>

is_leap(y) == (y % 4 = 0 /\ y % 100 # 0) \/ y % 400 = 0

days_in_month(y, m) ==
    IF m = 2 THEN (IF is_leap(y) THEN 29 ELSE 28)
    ELSE IF m \in {4, 6, 9, 11} THEN 30 ELSE 31

\* datetime.strptime(s, "%Y-%m-%d"): the date, or ParseError where it raises.
strptime(s) ==
    IF /\ s[1] \in 1..9999
       /\ s[2] \in 1..12
       /\ s[3] >= 1 /\ s[3] <= days_in_month(s[1], s[2])
    THEN s ELSE ParseError

\* a < b for two datetimes.
date_lt(a, b) ==
    \/ a[1] < b[1]
    \/ a[1] = b[1] /\ a[2] < b[2]
    \/ a[1] = b[1] /\ a[2] = b[2] /\ a[3] < b[3]

\* ------------------------------------------------------------- validator

MsgName == "Patient name mismatch across docs"
MsgDate == "Discharge date is before admission date"
MsgBill == "Invalid bill amount (must be positive)"
MsgPolicy == "Missing or invalid policy number"
MsgMember == "Missing or invalid member ID"

\* {doc.type for doc in documents}
doc_types(docs) == {docs[i].type : i \in 1..Len(docs)}

\* next((d for d in documents if d.type == t), None), as the index of that
\* document, 0 standing for None.
first_of_type(docs, t) ==
    IF \E i \in 1..Len(docs) : docs[i].type = t
    THEN CHOOSE i \in 1..Len(docs) :
            /\ docs[i].type = t
            /\ \A j \in 1..(i - 1) : docs[j].type # t
    ELSE 0

\* list(missing): a set is iterated in an order that depends on the hash seed
\* of the process, so every ordering is a possible result.
list_of_set(S) == Orderings(S)

\* The (type, name) pairs collected from the documents that expose a truthy
\* patient_name, in document order.
RECURSIVE patient_names(_)
patient_names(docs) ==
    IF Len(docs) = 0 THEN <<>>
    ELSE LET doc == docs[1]
             rest == patient_names(Tail(docs))
         IN  IF "patient_name" \in DOMAIN doc /\ truthy(doc.patient_name)
             THEN <<<<doc.type, strip(lower(doc.patient_name))>>>> \o rest
             ELSE rest

name_check(docs) ==
    LET names == patient_names(docs)
        unique_names == {names[i][2] : i \in 1..Len(names)}
    IN  IF Len(names) > 1 /\ Cardinality(unique_names) > 1 THEN <<MsgName>> ELSE <<>>

\* The try block around the two strptime calls and the comparison; the
\* except branch only logs.
date_check(docs) ==
    LET k == first_of_type(docs, "discharge_summary") IN
    IF k = 0 THEN <<>>
    ELSE LET admission == strptime(docs[k].admission_date)
             discharge == strptime(docs[k].discharge_date)
         IN  IF admission = ParseError \/ discharge = ParseError THEN <<>>
             ELSE IF date_lt(discharge, admission) THEN <<MsgDate>> ELSE <<>>

bill_check(docs) ==
    LET k == first_of_type(docs, "bill") IN
    IF k = 0 THEN <<>>
    ELSE IF docs[k].total_amount <= 0 THEN <<MsgBill>> ELSE <<>>

id_check(docs) ==
    LET k == first_of_type(docs, "id_card") IN
    IF k = 0 THEN <<>>
    ELSE (IF docs[k].policy_number = "" \/ docs[k].policy_number = "UNKNOWN"
          THEN <<MsgPolicy>> ELSE <<>>)
         \o
         (IF docs[k].member_id = "" \/ docs[k].member_id = "UNKNOWN"
          THEN <<MsgMember>> ELSE <<>>)

\* A variant in which a date that does not parse ends validate's checks: the
\* except branch leaves the remaining checks out.
discrepancies_of_aborting(docs) ==
    LET k == first_of_type(docs, "discharge_summary") IN
    IF /\ k # 0
       /\ \/ strptime(docs[k].admission_date) = ParseError
          \/ strptime(docs[k].discharge_date) = ParseError
    THEN name_check(docs)
    ELSE name_check(docs) \o date_check(docs)
            \o bill_check(docs) \o id_check(docs)

\* The discrepancies list as validate appends to it, check after check.
discrepancies_of(docs) ==
    name_check(docs) \o date_check(docs)
        \o bill_check(docs) \o id_check(docs)

\* A variant of validate that does not require the ID card.
validate_without_id_card(docs) ==
    LET missing == required_types_without_id_card \ doc_types(docs) IN
    {ValidationResult(ml, discrepancies_of(docs)) : ml \in list_of_set(missing)}

\* ValidatorAgent.validate: the set of results it can return.
validate(docs) ==
    LET missing == required_types \ doc_types(docs) IN
    {ValidationResult(ml, discrepancies_of(docs)) : ml \in list_of_set(missing)}

\* ------------------------------------------------------- decision policy

ReasonMissing == "Missing required docs: "
ReasonDiscrepancies == "Data discrepancies found - manual review required: "
ReasonApproved == "All required docs present and data is consistent"
ReasonIncomplete == "Incomplete documentation"

\* A variant that looks at the discrepancies before the missing documents.
make_decision_discrepancies_first(docs, validation) ==
    IF validation.discrepancies # <<>>
    THEN ClaimDecision("pending_review",
                       <<ReasonDiscrepancies>>
                           \o join("; ", SubSeq(validation.discrepancies, 1,
                                                Min(2, Len(validation.discrepancies)))),
                       60)
    ELSE IF validation.missing_documents # <<>>
    THEN ClaimDecision("rejected",
                       <<ReasonMissing>> \o join(", ", validation.missing_documents), 100)
    ELSE IF required_types \subseteq doc_types(docs)
    THEN ClaimDecision("approved", <<ReasonApproved>>, 95)
    ELSE ClaimDecision("rejected", <<ReasonIncomplete>>, 80)

\* A variant that joins every discrepancy into the reason, not the first two.
make_decision_all_discrepancies(docs, validation) ==
    IF validation.missing_documents # <<>>
    THEN ClaimDecision("rejected",
                       <<ReasonMissing>> \o join(", ", validation.missing_documents), 100)
    ELSE IF validation.discrepancies # <<>>
    THEN ClaimDecision("pending_review",
                       <<ReasonDiscrepancies>> \o join("; ", validation.discrepancies), 60)
    ELSE IF required_types \subseteq doc_types(docs)
    THEN ClaimDecision("approved", <<ReasonApproved>>, 95)
    ELSE ClaimDecision("rejected", <<ReasonIncomplete>>, 80)

\* ClaimOrchestrator._make_decision; a reason built with join is the list of
\* its pieces.
make_decision(docs, validation) ==
    IF validation.missing_documents # <<>>
    THEN ClaimDecision("rejected",
                       <<ReasonMissing>> \o join(", ", validation.missing_documents), 100)
    ELSE IF validation.discrepancies # <<>>
    THEN ClaimDecision("pending_review",
                       <<ReasonDiscrepancies>>
                           \o join("; ", SubSeq(validation.discrepancies, 1,
                                                Min(2, Len(validation.discrepancies)))),
                       60)
    ELSE IF required_types \subseteq doc_types(docs)
    THEN ClaimDecision("approved", <<ReasonApproved>>, 95)
    ELSE ClaimDecision("rejected", <<ReasonIncomplete>>, 80)


\* ------------------------------------------------- states with no call

NoValidation == ValidationResult(<<>>, <<>>)
NoDecision == ClaimDecision("none", <<>>, 0)
NoResponse == [status_code |-> 0, detail |-> <<>>, body |-> <<>>]
NoCalls == [stage \in {"classify", "extract", "agent"} |-> <<>>]

\* No direct call of validate is under way.
IdleValidate ==
    /\ v_pc = "idle"
    /\ arg_documents = <<>>
    /\ ret_validation = NoValidation
    /\ ret_decision = NoDecision

\* No direct call of classify is under way.
IdleClassify ==
    /\ c_pc = "idle"
    /\ arg_filename = <<>>
    /\ ret_classification = "none"
    /\ llm_calls = 0

\* process_claim is not running.
IdleOrchestrator ==
    /\ o_pc = "idle"
    /\ cls_state = <<>>
    /\ cls_result = <<>>
    /\ classifications = <<>>
    /\ ext_state = <<>>
    /\ ext_data = <<>>
    /\ ext_result = <<>>
    /\ extracted_texts = <<>>
    /\ done_order = <<>>
    /\ route_i = 0
    /\ routed = <<>>
    /\ documents = <<>>
    /\ doc_origin = <<>>
    /\ error = "none"
    /\ external_failures = {}
    /\ completed_out_of_order = FALSE
    /\ hung = {}
    /\ n_calls = NoCalls

\* The service holds no request.
IdleService ==
    /\ h_pc = "idle"
    /\ files = <<>>
    /\ staged = <<>>
    /\ file_paths = <<>>
    /\ n_writes = 0
    /\ orch_calls = 0
    /\ response = NoResponse
    /\ IdleOrchestrator

\* ------------------------------------- validate and _make_decision, called

NameA == <<"a">>
NameA2 == <<" ", "A">>
NameB == <<"b">>

\* Date strings: two dates, a date of a month that has no such day, no date.
Jan01 == <<2024, 1, 1>>
Jan05 == <<2024, 1, 5>>
Feb30 == <<2024, 2, 30>>
NotADate == <<0, 0, 0>>

Bills ==
    {BillDocument(amount, name) : amount \in {-5, 0, 150}, name \in {None, NameA}}
        \cup {BillSentinel}

DischargeSummaries ==
    {DischargeSummaryDocument(name, d[1], d[2]) :
        name \in {NameA2, NameB},
        d \in {<<Jan05, Jan01>>, <<Jan01, Jan05>>, <<Feb30, Jan01>>}}
        \cup {DischargeSummaryDocument(NameA2, Jan05, NotADate), DischargeSentinel}

IDCards ==
    {IDCardDocument(NameA, policy, member) :
        policy \in {"", "UNKNOWN", "POL123"}, member \in {"UNKNOWN", "MEM456"}}
        \cup {IDCardSentinel}

Documents == Bills \cup DischargeSummaries \cup IDCards

InitValidate ==
    /\ v_pc = "call"
    /\ arg_documents \in SeqsUpTo(Documents, MaxDocs)
    /\ ret_validation = NoValidation
    /\ ret_decision = NoDecision
    /\ IdleClassify
    /\ IdleService
    /\ orchestrator = "ready"

\* validation_result = await self.validator_agent.validate(documents)
CallValidate ==
    /\ v_pc = "call"
    /\ ret_validation' \in validate(arg_documents)
    /\ v_pc' = "validated"
    /\ UNCHANGED <<arg_documents, ret_decision, c_vars, h_vars, o_vars>>

\* claim_decision = await self._make_decision(documents, validation_result)
CallDecide ==
    /\ v_pc = "validated"
    /\ ret_decision' = make_decision(arg_documents, ret_validation)
    /\ v_pc' = "decided"
    /\ UNCHANGED <<arg_documents, ret_validation, c_vars, h_vars, o_vars>>

NextValidate == CallValidate \/ CallDecide

SpecValidate == InitValidate /\ [][NextValidate]_vars


\* --------------------- validate and _make_decision on records of extractors

\* Most documents in a list of records of the extractors.
MaxSentinelDocs == 4

UnknownPatient ==
    <<"U", "n", "k", "n", "o", "w", "n", " ", "P", "a", "t", "i", "e", "n", "t">>

\* What the three extractors hand to the routing loop: the record built from
\* the answer of get_structured_output, or the sentinel of the except branch.
ExtractorRecords ==
    {BillDocument(150, NameA), BillDocument(150, None),
     DischargeSummaryDocument(NameA2, Jan01, Jan05),
     IDCardDocument(NameA, "POL123", "MEM456"),
     IDCardDocument(UnknownPatient, "POL123", "MEM456"),
     BillSentinel, DischargeSentinel, IDCardSentinel}

InitSentinel ==
    /\ v_pc = "call"
    /\ arg_documents \in SeqsUpTo(ExtractorRecords, MaxSentinelDocs)
    /\ ret_validation = NoValidation
    /\ ret_decision = NoDecision
    /\ IdleClassify
    /\ IdleService
    /\ orchestrator = "ready"

SpecSentinel == InitSentinel /\ [][NextValidate]_vars


\* ---------------------------------------- claims on validate and decide

ThreeTypes == {"bill", "discharge_summary", "id_card"}

TypesPresent == {arg_documents[i].type : i \in 1..Len(arg_documents)}

TypesAbsent == ThreeTypes \ TypesPresent

\* C1: for every list of documents, validate returns missing_documents equal
\* as a set to {bill, discharge_summary, id_card} minus the types present, and
\* whenever that set is non-empty decide returns status rejected with
\* confidence 1.0 and a reason that lists exactly the missing types, whatever
\* discrepancies the same ValidationResult carries.
C1_MissingDocumentsRejected ==
    /\ v_pc \in {"validated", "decided"} =>
          /\ Range(ret_validation.missing_documents) = TypesAbsent
          /\ Len(ret_validation.missing_documents) = Cardinality(TypesAbsent)
    /\ (v_pc = "decided" /\ TypesAbsent # {}) =>
          /\ ret_decision.status = "rejected"
          /\ ret_decision.confidence_score = 100
          /\ ret_decision.reason[1] = ReasonMissing
          /\ Range(ret_decision.reason) \ {ReasonMissing, ", "} = TypesAbsent
          /\ \A t \in TypesAbsent :
                Cardinality({i \in 1..Len(ret_decision.reason) : ret_decision.reason[i] = t}) = 1

\* A decision on documents with a type missing and discrepancies present.
C1_Witness ==
    /\ v_pc = "decided"
    /\ Cardinality(TypesAbsent) = 2
    /\ Len(ret_validation.discrepancies) >= 1
    /\ ret_decision.status = "rejected"

\* C2: decide returns approved (with the fixed reason and confidence 0.95) if
\* and only if all three required types are present and validate found no
\* discrepancy; in every other case the status is rejected or pending_review.
C2_ApprovedIff ==
    v_pc = "decided" =>
        /\ ret_decision.status \in {"approved", "rejected", "pending_review"}
        /\ ret_decision.status = "approved" <=>
              (ThreeTypes \subseteq TypesPresent /\ ret_validation.discrepancies = <<>>)
        /\ ret_decision.status = "approved" =>
              /\ ret_decision.reason = <<ReasonApproved>>
              /\ ret_decision.confidence_score = 95

\* An approved claim, and a claim of two types only without any discrepancy.
C2_Witness ==
    /\ v_pc = "decided"
    /\ ret_decision.status = "approved"
    /\ Len(arg_documents) = 3

\* C3: with all three types present and at least one discrepancy, decide
\* returns pending_review with confidence 0.6, and its reason holds the first
\* min(2, n) discrepancies in validator order and none from the third onward.
C3_PendingReviewFirstTwo ==
    (/\ v_pc = "decided"
     /\ ThreeTypes \subseteq TypesPresent
     /\ Len(ret_validation.discrepancies) >= 1) =>
        LET d == ret_validation.discrepancies
            r == ret_decision.reason
        IN  /\ ret_decision.status = "pending_review"
            /\ ret_decision.confidence_score = 60
            /\ \E i \in 1..Len(r) :
                  /\ r[i] = d[1]
                  /\ Len(d) >= 2 => \E j \in (i + 1)..Len(r) : r[j] = d[2]
            /\ \A k \in 3..Len(d) : d[k] \notin Range(r)

\* A pending_review decision on a validation that found three discrepancies
\* or more.
C3_Witness ==
    /\ v_pc = "decided"
    /\ ThreeTypes \subseteq TypesPresent
    /\ Len(ret_validation.discrepancies) >= 3
    /\ ret_decision.status = "pending_review"

\* C4: validate is a pure function of the document set: on the same documents
\* in any list order, lists with several documents of one type included, it
\* yields the same missing_documents set and the same discrepancies sequence.
C4_OrderInsensitive ==
    v_pc \in {"validated", "decided"} =>
        \A p \in Reorderings(arg_documents) :
            \A r \in validate(p) :
                /\ Range(r.missing_documents) = Range(ret_validation.missing_documents)
                /\ r.discrepancies = ret_validation.discrepancies

\* The conditions of validate's checks, each on the document the check reads.
NameMismatch ==
    \E i, j \in 1..Len(arg_documents) :
        /\ truthy(arg_documents[i].patient_name)
        /\ truthy(arg_documents[j].patient_name)
        /\ strip(lower(arg_documents[i].patient_name))
              # strip(lower(arg_documents[j].patient_name))

IsFirstOfType(i) ==
    \A j \in 1..(i - 1) : arg_documents[j].type # arg_documents[i].type

ReadBy(t) ==
    {i \in 1..Len(arg_documents) : arg_documents[i].type = t /\ IsFirstOfType(i)}

DischargeBeforeAdmission ==
    \E i \in ReadBy("discharge_summary") :
        LET a == arg_documents[i].admission_date
            d == arg_documents[i].discharge_date
        IN  /\ strptime(a) # ParseError
            /\ strptime(d) # ParseError
            /\ date_lt(d, a)

DatesUnparseable ==
    \E i \in ReadBy("discharge_summary") :
        \/ strptime(arg_documents[i].admission_date) = ParseError
        \/ strptime(arg_documents[i].discharge_date) = ParseError

BillNotPositive == \E i \in ReadBy("bill") : arg_documents[i].total_amount <= 0

PolicyInvalid ==
    \E i \in ReadBy("id_card") : arg_documents[i].policy_number \in {"", "UNKNOWN"}

MemberInvalid ==
    \E i \in ReadBy("id_card") : arg_documents[i].member_id \in {"", "UNKNOWN"}

ExpectedDiscrepancies ==
    (IF NameMismatch THEN <<MsgName>> ELSE <<>>)
        \o (IF DischargeBeforeAdmission THEN <<MsgDate>> ELSE <<>>)
        \o (IF BillNotPositive THEN <<MsgBill>> ELSE <<>>)
        \o (IF PolicyInvalid THEN <<MsgPolicy>> ELSE <<>>)
        \o (IF MemberInvalid THEN <<MsgMember>> ELSE <<>>)

\* C5: every check of validate whose condition holds (on the document the
\* check reads: the first of its type) contributes its message, no check
\* suppresses another, an unparseable date included, and the messages appear
\* in the order name, date, bill amount, policy number, member ID.
C5_AllChecksInOrder ==
    v_pc \in {"validated", "decided"} =>
        ret_validation.discrepancies = ExpectedDiscrepancies

\* A validation with a name mismatch and an unparseable discharge date that
\* still reports the bill amount and both ID-card fields.
C5_Witness ==
    /\ v_pc = "validated"
    /\ DatesUnparseable
    /\ ret_validation.discrepancies = <<MsgName, MsgBill, MsgPolicy, MsgMember>>


\* ------------------------------------------------------------ classifier

bill_keywords == {<<"b", "i", "l", "l">>, <<"i", "n", "v", "o", "i", "c", "e">>, <<"p", "a", "y", "m", "e", "n", "t">>, <<"r", "e", "c", "e", "i", "p", "t">>}
discharge_keywords ==
    {<<"d", "i", "s", "c", "h", "a", "r", "g", "e">>,
     <<"s", "u", "m", "m", "a", "r", "y">>,
     <<"r", "e", "p", "o", "r", "t">>}
id_keywords == {<<"i", "d">>, <<"c", "a", "r", "d">>, <<"p", "o", "l", "i", "c", "y">>, <<"i", "n", "s", "u", "r", "a", "n", "c", "e">>}

\* any(kw in filename_lower for kw in keywords)
any_keyword(filename_lower, keywords) ==
    \E kw \in keywords : contains(filename_lower, kw)

\* A variant that tries the discharge keywords before the bill keywords.
classify_by_filename_discharge_first(filename) ==
    LET filename_lower == lower(filename) IN
    IF any_keyword(filename_lower, discharge_keywords) THEN "discharge_summary"
    ELSE IF any_keyword(filename_lower, bill_keywords) THEN "bill"
    ELSE IF any_keyword(filename_lower, id_keywords) THEN "id_card"
    ELSE "fallback"

\* The filename-based part of ClassifierAgent.classify: the tag it returns, or
\* "fallback" where it goes on to the LLM.
classify_by_filename(filename) ==
    LET filename_lower == lower(filename) IN
    IF any_keyword(filename_lower, bill_keywords) THEN "bill"
    ELSE IF any_keyword(filename_lower, discharge_keywords) THEN "discharge_summary"
    ELSE IF any_keyword(filename_lower, id_keywords) THEN "id_card"
    ELSE "fallback"

\* The spelling of each tag, for the comparison with the LLM's answer.
tag_text(t) ==
    CASE t = "bill" -> <<"b", "i", "l", "l">>
      [] t = "discharge_summary" ->
            <<"d", "i", "s", "c", "h", "a", "r", "g", "e", "_", "s", "u", "m", "m", "a", "r", "y">>
      [] t = "id_card" -> <<"i", "d", "_", "c", "a", "r", "d">>

valid_types == {"bill", "discharge_summary", "id_card"}

\* A variant that returns the answer of the LLM without the test against
\* valid_types: an answer that is no tag is returned as it is.
classify_by_llm_unchecked(text) ==
    LET classification == lower(strip(text)) IN
    IF \E t \in valid_types : tag_text(t) = classification
    THEN CHOOSE t \in valid_types : tag_text(t) = classification
    ELSE "other"

\* The LLM part of classify once get_completion returned `text`: the answer
\* stripped and lower-cased if it is a valid type, "bill" otherwise.
classify_by_llm(text) ==
    LET classification == lower(strip(text)) IN
    IF \E t \in valid_types : tag_text(t) = classification
    THEN CHOOSE t \in valid_types : tag_text(t) = classification
    ELSE "bill"

\* What get_completion can return for a filename without keyword.
LlmAnswers ==
    {<<"b", "i", "l", "l">>, <<" ", "I", "D", "_", "C", "a", "r", "d", "\n">>, <<"D", "i", "s", "c", "h", "a", "r", "g", "e", "_", "S", "u", "m", "m", "a", "r", "y">>,
     <<"a", " ", "m", "e", "d", "i", "c", "a", "l", " ", "b", "i", "l", "l">>}


\* ------------------------------------------------------ classify, called

Words ==
    {<<"b", "i", "l", "l">>, <<"I", "N", "V", "O", "I", "C", "E">>, <<"R", "e", "c", "e", "i", "p", "t">>,
     <<"d", "i", "s", "c", "h", "a", "r", "g", "e">>, <<"S", "u", "m", "m", "a", "r", "y">>, <<"r", "e", "p", "o", "r", "t">>,
     <<"i", "d">>, <<"c", "a", "r", "d">>, <<"p", "o", "l", "i", "c", "y">>,
     <<"s", "c", "a", "n">>, <<"p", "a", "i", "d">>, <<"x">>}

Underscore == <<"_">>

Extensions == {<<".", "p", "d", "f">>, <<".", "P", "D", "F">>}

\* One to n words joined by underscores.
RECURSIVE Stems(_)
Stems(n) ==
    IF n <= 1 THEN Words
    ELSE Stems(n - 1) \cup {s \o Underscore \o w : s \in Stems(n - 1), w \in Words}

Filenames == {s \o e : s \in Stems(MaxWords), e \in Extensions}

InitClassify ==
    /\ c_pc = "call"
    /\ arg_filename \in Filenames
    /\ ret_classification = "none"
    /\ llm_calls = 0
    /\ IdleValidate
    /\ IdleService
    /\ orchestrator = "ready"

\* classify up to its return on a keyword, or up to its await of
\* get_completion.
ClassifyCall ==
    /\ c_pc = "call"
    /\ LET t == classify_by_filename(arg_filename) IN
       IF t # "fallback"
       THEN /\ ret_classification' = t
            /\ c_pc' = "done"
            /\ UNCHANGED llm_calls
       ELSE /\ c_pc' = "llm"
            /\ llm_calls' = llm_calls + 1
            /\ UNCHANGED ret_classification
    /\ UNCHANGED <<arg_filename, v_vars, h_vars, o_vars>>

\* get_completion returns a text.
ClassifyLlmReturn ==
    /\ c_pc = "llm"
    /\ \E text \in LlmAnswers : ret_classification' = classify_by_llm(text)
    /\ c_pc' = "done"
    /\ UNCHANGED <<arg_filename, llm_calls, v_vars, h_vars, o_vars>>

\* get_completion raises: the except branch returns "bill".
ClassifyLlmRaise ==
    /\ c_pc = "llm"
    /\ ret_classification' = "bill"
    /\ c_pc' = "done"
    /\ UNCHANGED <<arg_filename, llm_calls, v_vars, h_vars, o_vars>>

NextClassify == ClassifyCall \/ ClassifyLlmReturn \/ ClassifyLlmRaise

SpecClassify == InitClassify /\ [][NextClassify]_vars

\* ------------------------------------------------------ claim on classify

HasKeyword(ks) == \E kw \in ks : contains(lower(arg_filename), kw)

BillWords == {<<"b", "i", "l", "l">>, <<"i", "n", "v", "o", "i", "c", "e">>, <<"p", "a", "y", "m", "e", "n", "t">>, <<"r", "e", "c", "e", "i", "p", "t">>}
DischargeWords == {<<"d", "i", "s", "c", "h", "a", "r", "g", "e">>, <<"s", "u", "m", "m", "a", "r", "y">>, <<"r", "e", "p", "o", "r", "t">>}
IdWords == {<<"i", "d">>, <<"c", "a", "r", "d">>, <<"p", "o", "l", "i", "c", "y">>, <<"i", "n", "s", "u", "r", "a", "n", "c", "e">>}

\* C6: classify tries the keyword sets in the order bill, discharge, id on the
\* lower-cased filename: a filename with a bill keyword returns "bill" even
\* if it also holds discharge or id keywords, one with a discharge keyword and
\* no bill keyword returns "discharge_summary", and whenever a keyword
\* matched, the LLM is not invoked.
C6_KeywordPriority ==
    /\ (c_pc # "call" /\ HasKeyword(BillWords)) =>
          c_pc = "done" /\ ret_classification = "bill" /\ llm_calls = 0
    /\ (c_pc # "call" /\ ~HasKeyword(BillWords) /\ HasKeyword(DischargeWords)) =>
          c_pc = "done" /\ ret_classification = "discharge_summary" /\ llm_calls = 0
    /\ (c_pc # "call" /\ ~HasKeyword(BillWords) /\ ~HasKeyword(DischargeWords)
            /\ HasKeyword(IdWords)) =>
          c_pc = "done" /\ ret_classification = "id_card" /\ llm_calls = 0

\* classify has returned "bill" for a filename that holds a discharge keyword
\* and, in upper case, a bill keyword.
C6_Witness ==
    /\ c_pc = "done"
    /\ contains(arg_filename, <<"I", "N", "V", "O", "I", "C", "E">>)
    /\ HasKeyword(DischargeWords)
    /\ ret_classification = "bill"
    /\ llm_calls = 0


\* ------------------------------------------------------ upload validation

\* A literal part of a message; a message is the list of its parts, a
\* filename being one of them.
Lit(text) == <<text>>

DotPdf == <<".", "p", "d", "f">>

\* MAX_FILE_SIZE
MAX_FILE_SIZE == 25 * 1024 * 1024

\* The loop of validate_pdf_files over the files: the message of the first
\* ValueError raised, or <<>> if none is.
RECURSIVE check_each_file(_)
check_each_file(fs) ==
    IF Len(fs) = 0 THEN <<>>
    ELSE LET file == fs[1] IN
         IF ~endswith(lower(file.filename), DotPdf)
         THEN <<Lit("'"), file.filename, Lit("' is not a PDF")>>
         ELSE IF file.filename = <<>>
         THEN <<Lit("Invalid filename")>>
         ELSE IF file.size > MAX_FILE_SIZE
         THEN <<Lit("'"), file.filename, Lit("' exceeds 25MB")>>
         ELSE IF file.size = 0
         THEN <<Lit("'"), file.filename, Lit("' is empty")>>
         ELSE check_each_file(Tail(fs))

\* A variant without the test for an empty file.
RECURSIVE check_each_file_no_empty_test(_)
check_each_file_no_empty_test(fs) ==
    IF Len(fs) = 0 THEN <<>>
    ELSE LET file == fs[1] IN
         IF ~endswith(lower(file.filename), DotPdf)
         THEN <<Lit("'"), file.filename, Lit("' is not a PDF")>>
         ELSE IF file.filename = <<>>
         THEN <<Lit("Invalid filename")>>
         ELSE IF file.size > MAX_FILE_SIZE
         THEN <<Lit("'"), file.filename, Lit("' exceeds 25MB")>>
         ELSE check_each_file_no_empty_test(Tail(fs))

validate_pdf_files_no_empty_test(fs) ==
    IF Len(fs) < 1 THEN <<Lit("At least one PDF file required")>>
    ELSE check_each_file_no_empty_test(fs)

\* validate_pdf_files: the message of the ValueError it raises, or <<>> where
\* it returns True.
validate_pdf_files(fs) ==
    IF Len(fs) < 1 THEN <<Lit("At least one PDF file required")>>
    ELSE check_each_file(fs)

\* ----------------------------------------------------------- the handler

TempDir == <<"/", "t", "/">>

\* Path(temp_dir) / file.filename
path_of(filename) == TempDir \o filename

\* The temporary directory after the staging loop wrote every file in turn: a
\* later write to a path replaces an earlier one.
write_all(fs) ==
    [p \in {path_of(fs[i].filename) : i \in 1..Len(fs)} |->
        LET last == CHOOSE i \in 1..Len(fs) :
                        /\ path_of(fs[i].filename) = p
                        /\ \A j \in (i + 1)..Len(fs) : path_of(fs[j].filename) # p
        IN  fs[last].content]

HTTPResponse(status_code, detail, body) ==
    [status_code |-> status_code, detail |-> detail, body |-> body]

DetailUnavailable ==
    <<Lit("Orchestrator not initialized. Check API keys and configuration.")>>

\* The batches a client uploads: four PDF names (one without any keyword,
\* a scan that holds no text), a name that is nothing but the extension, a
\* name that is no PDF, an empty file and a file above the size limit. The content of an upload is identified by its
\* position in the batch.
Uploads ==
    {[filename |-> <<"b", "i", "l", "l", ".", "p", "d", "f">>, size |-> 1024, has_text |-> TRUE],
     [filename |-> <<"d", "i", "s", "c", "h", "a", "r", "g", "e", ".", "p", "d", "f">>, size |-> 2048,
      has_text |-> TRUE],
     [filename |-> <<"i", "d", "_", "c", "a", "r", "d", ".", "p", "d", "f">>,
      size |-> MAX_FILE_SIZE, has_text |-> TRUE],
     [filename |-> <<"s", "c", "a", "n", ".", "p", "d", "f">>, size |-> 1024, has_text |-> FALSE],
     [filename |-> <<".", "p", "d", "f">>, size |-> 1024, has_text |-> TRUE],
     [filename |-> <<"n", "o", "t", "e", "s", ".", "t", "x", "t">>, size |-> 1024, has_text |-> TRUE],
     [filename |-> <<"b", "i", "l", "l", ".", "p", "d", "f">>, size |-> 0, has_text |-> FALSE],
     [filename |-> <<"s", "c", "a", "n", ".", "p", "d", "f">>, size |-> MAX_FILE_SIZE + 1,
      has_text |-> TRUE]}

Batches ==
    {[i \in 1..Len(b) |->
        [filename |-> b[i].filename, size |-> b[i].size,
         content |-> [upload |-> i, has_text |-> b[i].has_text]]] :
        b \in SeqsUpTo(Uploads, MaxFiles)}

\* The state of the process once main.py is imported: the orchestrator was
\* constructed, or its construction raised and the name holds None.
Init ==
    /\ orchestrator \in {"ready", "None"}
    /\ IdleService
    /\ IdleValidate
    /\ IdleClassify

\* A POST /process-claim arrives.
ReceiveRequest ==
    /\ h_pc = "idle"
    /\ files' \in Batches
    /\ h_pc' = "received"
    /\ UNCHANGED <<orchestrator, staged, file_paths, n_writes, orch_calls, response>>
    /\ UNCHANGED <<v_vars, c_vars, o_vars>>

\* if not orchestrator: raise HTTPException(503)
RefuseUnavailable ==
    /\ h_pc = "received"
    /\ orchestrator = "None"
    /\ response' = HTTPResponse(503, DetailUnavailable, <<>>)
    /\ h_pc' = "done"
    /\ UNCHANGED <<orchestrator, files, staged, file_paths, n_writes, orch_calls>>
    /\ UNCHANGED <<v_vars, c_vars, o_vars>>

\* A variant of the handler without the test of the orchestrator.
ValidateUploadWithoutServiceTest ==
    /\ h_pc = "received"
    /\ LET message == validate_pdf_files(files) IN
       IF message = <<>>
       THEN /\ h_pc' = "validated"
            /\ UNCHANGED response
       ELSE /\ h_pc' = "done"
            /\ response' = HTTPResponse(400, message, <<>>)
    /\ UNCHANGED <<orchestrator, files, staged, file_paths, n_writes, orch_calls>>
    /\ UNCHANGED <<v_vars, c_vars, o_vars>>

\* await validate_pdf_files(files); a ValueError is answered with 400.
ValidateUpload ==
    /\ h_pc = "received"
    /\ orchestrator # "None"
    /\ LET message == validate_pdf_files(files) IN
       IF message = <<>>
       THEN /\ h_pc' = "validated"
            /\ UNCHANGED response
       ELSE /\ h_pc' = "done"
            /\ response' = HTTPResponse(400, message, <<>>)
    /\ UNCHANGED <<orchestrator, files, staged, file_paths, n_writes, orch_calls>>
    /\ UNCHANGED <<v_vars, c_vars, o_vars>>

\* The loop that saves every upload under temp_dir / file.filename.
StageFiles ==
    /\ h_pc = "validated"
    /\ staged' = write_all(files)
    /\ file_paths' = [i \in 1..Len(files) |->
                        [path |-> path_of(files[i].filename), filename |-> files[i].filename]]
    /\ n_writes' = Len(files)
    /\ h_pc' = "staged"
    /\ UNCHANGED <<orchestrator, files, orch_calls, response>>
    /\ UNCHANGED <<v_vars, c_vars, o_vars>>


\* ------------------------------------------------------- the orchestrator

\* The text extract_text returns for the bytes it read, and the placeholder it
\* returns where the service gave no text. (The extractors read text[:3000],
\* which keeps a text of this model whole.)
TextOf(pdf_data) == [kind |-> "text", data |-> pdf_data.upload]

Placeholder == [kind |-> "placeholder", data |-> 0]

NoText == [kind |-> "none", data |-> 0]

\* The exception an extract_text task ended with, in the place of its text.
Raised(kind) == [kind |-> kind, data |-> 0]

NoData == [upload |-> 0, has_text |-> FALSE]

\* The kind of exception the service call raises: an error of the API or of
\* the transport, which is no ValueError. (A ValueError of the call would take
\* the way of the ValueError extract_text raises itself.)
ExceptionKinds == {"Exception"}

\* The answers get_completion gives in the service: a tag in another case and
\* within white space, and a sentence that is no tag.
ServiceLlmAnswers ==
    {<<" ", "I", "D", "_", "C", "a", "r", "d", "\n">>,
     <<"a", " ", "m", "e", "d", "i", "c", "a", "l", " ", "b", "i", "l", "l">>}

\* The keys of agent_map in _route_to_agent.
agent_map == {"bill", "discharge_summary", "id_card"}

\* The records get_structured_output yields for each agent when the call and
\* the construction of the document succeed.
ExtractedRecords(doc_type) ==
    CASE doc_type = "bill" -> {BillDocument(150, NameA)}
      [] doc_type = "discharge_summary" ->
            {DischargeSummaryDocument(NameA2, Jan01, Jan05)}
      [] doc_type = "id_card" -> {IDCardDocument(NameA, "POL123", "MEM456")}

\* The record an agent returns from its except branch.
Sentinel(doc_type) ==
    CASE doc_type = "bill" -> BillSentinel
      [] doc_type = "discharge_summary" -> DischargeSentinel
      [] doc_type = "id_card" -> IDCardSentinel

\* A variant of the join that resumes as soon as one task is done.
gather_ready_any(state) == \E i \in 1..Len(state) : state[i] = "done"

\* await asyncio.gather(*tasks) resumes once every task has returned or
\* raised.
gather_ready(state) == \A i \in 1..Len(state) : state[i] \in {"done", "failed"}

\* A variant that lists the results in the order the tasks completed.
gather_results_in_completion_order(results, order) ==
    [k \in 1..Len(results) |-> IF k <= Len(order) THEN results[order[k]] ELSE results[k]]

\* The list asyncio.gather returns: the result of each task at the position
\* of the task, whatever the order the tasks completed in.
gather_results(results, order) == [i \in 1..Len(results) |-> results[i]]

ClaimProcessingResponse(docs, validation, decision, metadata) ==
    [documents |-> docs, validation |-> validation, claim_decision |-> decision,
     processing_metadata |-> metadata]

\* filepath.suffix.lower() and the keyword tag of classify, for each name a
\* client uploads.
suffix_lower == [p \in {path_of(u.filename) : u \in Uploads} |-> lower(suffix(p))]

filename_tag == [f \in {u.filename : u \in Uploads} |-> classify_by_filename(f)]

\* What classify returns for each answer of get_completion.
answer_tag == [text \in ServiceLlmAnswers |-> classify_by_llm(text)]

NFiles == Len(file_paths)

\* Task i completes while the task of an earlier file is not done yet.
overtakes(state, i) == \E j \in 1..(i - 1) : state[j] # "done"

\* A variant in which the coroutines go on although a call has not returned.
runs_although_call_hangs == TRUE

\* client.models.generate_content is the synchronous client, called without
\* await: while a call has not returned, the thread of the event loop is inside
\* it and no coroutine of the process takes a step.
event_loop_runs == hung = {}

\* The external calls issued so far for file i in each stage, after one more
\* in the given stage.
one_more_call(stage, i) ==
    [n_calls EXCEPT ![stage] = [@ EXCEPT ![i] = @ + 1]]

\* result = await orchestrator.process_claim(file_paths), up to the creation
\* of the classify tasks in _classify_documents.
CallOrchestrator ==
    /\ h_pc = "staged"
    /\ h_pc' = "processing"
    /\ orch_calls' = orch_calls + 1
    /\ o_pc' = "classify"
    /\ cls_state' = [i \in 1..NFiles |-> "pending"]
    /\ cls_result' = [i \in 1..NFiles |-> "none"]
    /\ n_calls' = [stage \in {"classify", "extract", "agent"} |-> [i \in 1..NFiles |-> 0]]
    /\ UNCHANGED <<orchestrator, files, staged, file_paths, n_writes, response>>
    /\ UNCHANGED <<classifications, ext_state, ext_data, ext_result, extracted_texts,
                   done_order, route_i, routed, documents, doc_origin,
                   error, external_failures, completed_out_of_order, hung>>
    /\ UNCHANGED <<v_vars, c_vars>>

\* The classify task of file i runs, after the tasks gather created before it
\* have run up to their first await: it returns on a keyword, or awaits
\* get_completion. (The model lets the later classify tasks run at this await,
\* which includes the order the synchronous client gives: each task to its
\* end, in input order.)
ClassifyTaskRun(i) ==
    /\ o_pc = "classify"
    /\ event_loop_runs
    /\ cls_state[i] = "pending"
    /\ \A j \in 1..(i - 1) : cls_state[j] # "pending"
    /\ LET t == filename_tag[file_paths[i].filename] IN
       IF t # "fallback"
       THEN /\ cls_state' = [cls_state EXCEPT ![i] = "done"]
            /\ cls_result' = [cls_result EXCEPT ![i] = t]
            /\ done_order' = Append(done_order, i)
            /\ completed_out_of_order' = (completed_out_of_order \/ overtakes(cls_state, i))
            /\ UNCHANGED n_calls
       ELSE /\ cls_state' = [cls_state EXCEPT ![i] = "llm"]
            /\ n_calls' = one_more_call("classify", i)
            /\ UNCHANGED <<cls_result, done_order, completed_out_of_order>>
    /\ UNCHANGED <<o_pc, classifications, ext_state, ext_data, ext_result, extracted_texts,
                   route_i, routed, documents, doc_origin, error, external_failures, hung>>
    /\ UNCHANGED <<v_vars, c_vars, h_vars>>

\* get_completion returns to the classify task of file i.
ClassifyTaskLlmReturn(i) ==
    /\ o_pc = "classify"
    /\ event_loop_runs
    /\ cls_state[i] = "llm"
    /\ \E text \in ServiceLlmAnswers :
          cls_result' = [cls_result EXCEPT ![i] = answer_tag[text]]
    /\ cls_state' = [cls_state EXCEPT ![i] = "done"]
    /\ done_order' = Append(done_order, i)
    /\ completed_out_of_order' = (completed_out_of_order \/ overtakes(cls_state, i))
    /\ UNCHANGED <<o_pc, classifications, ext_state, ext_data, ext_result, extracted_texts,
                   route_i, routed, documents, doc_origin, error, external_failures,
                   hung, n_calls>>
    /\ UNCHANGED <<v_vars, c_vars, h_vars>>

\* get_completion raises in the classify task of file i, which returns "bill".
ClassifyTaskLlmRaise(i) ==
    /\ o_pc = "classify"
    /\ event_loop_runs
    /\ cls_state[i] = "llm"
    /\ cls_result' = [cls_result EXCEPT ![i] = "bill"]
    /\ cls_state' = [cls_state EXCEPT ![i] = "done"]
    /\ done_order' = Append(done_order, i)
    /\ external_failures' = external_failures \cup {"get_completion"}
    /\ completed_out_of_order' = (completed_out_of_order \/ overtakes(cls_state, i))
    /\ UNCHANGED <<o_pc, classifications, ext_state, ext_data, ext_result, extracted_texts,
                   route_i, routed, documents, doc_origin, error, hung, n_calls>>
    /\ UNCHANGED <<v_vars, c_vars, h_vars>>

\* The call of get_completion made for file i never returns.
ClassifyTaskLlmHang(i) ==
    /\ o_pc = "classify"
    /\ event_loop_runs
    /\ cls_state[i] = "llm"
    /\ cls_state' = [cls_state EXCEPT ![i] = "hung"]
    /\ hung' = hung \cup {"get_completion"}
    /\ UNCHANGED <<o_pc, cls_result, classifications, ext_state, ext_data, ext_result,
                   extracted_texts, done_order, route_i, routed, documents, doc_origin,
                   error, external_failures, completed_out_of_order, n_calls>>
    /\ UNCHANGED <<v_vars, c_vars, h_vars>>

\* _classify_documents returns the gathered classifications; process_claim
\* creates the extract_text tasks and awaits their gather.
GatherClassifications ==
    /\ o_pc = "classify"
    /\ event_loop_runs
    /\ gather_ready(cls_state)
    /\ classifications' = gather_results(cls_result, done_order)
    /\ o_pc' = "extract"
    /\ ext_state' = [i \in 1..NFiles |-> "pending"]
    /\ ext_data' = [i \in 1..NFiles |-> NoData]
    /\ ext_result' = [i \in 1..NFiles |-> NoText]
    /\ done_order' = <<>>
    /\ UNCHANGED <<cls_state, cls_result, extracted_texts, route_i, routed, documents,
                   doc_origin, error, external_failures,
                   completed_out_of_order, hung, n_calls>>
    /\ UNCHANGED <<v_vars, c_vars, h_vars>>

\* process_claim ends, by a return or by an exception: its local variables and
\* the tasks it created are gone.
FrameDropped ==
    /\ cls_state' = <<>>
    /\ cls_result' = <<>>
    /\ classifications' = <<>>
    /\ ext_state' = <<>>
    /\ ext_data' = <<>>
    /\ ext_result' = <<>>
    /\ extracted_texts' = <<>>
    /\ done_order' = <<>>
    /\ route_i' = 0
    /\ routed' = <<>>
    /\ documents' = <<>>
    /\ doc_origin' = <<>>
    /\ completed_out_of_order' = FALSE
    /\ n_calls' = NoCalls

\* The event loop runs the extract_text tasks in the order gather created
\* them, and extract_text awaits nothing: each task runs from its first line to
\* its return or its exception before the next one starts.
extract_task_runs(i) ==
    /\ o_pc = "extract"
    /\ event_loop_runs
    /\ ext_state[i] = "pending"
    /\ \A j \in 1..(i - 1) : ext_state[j] \in {"done", "failed"}

\* filepath.exists() and filepath.suffix.lower() == '.pdf'
path_accepted(pdf_path) ==
    /\ pdf_path \in DOMAIN staged
    /\ suffix_lower[pdf_path] = DotPdf

\* The extract_text task of file i reads the bytes, calls the service and
\* returns the text of the document or, for a document that holds none, the
\* placeholder.
ExtractTaskReturn(i) ==
    /\ extract_task_runs(i)
    /\ path_accepted(file_paths[i].path)
    /\ LET pdf_data == staged[file_paths[i].path] IN
       /\ ext_data' = [ext_data EXCEPT ![i] = pdf_data]
       /\ ext_result' = [ext_result EXCEPT
                           ![i] = IF pdf_data.has_text THEN TextOf(pdf_data) ELSE Placeholder]
    /\ n_calls' = one_more_call("extract", i)
    /\ ext_state' = [ext_state EXCEPT ![i] = "done"]
    /\ done_order' = Append(done_order, i)
    /\ UNCHANGED <<o_pc, cls_state, cls_result, classifications, extracted_texts,
                   route_i, routed, documents, doc_origin, error, external_failures,
                   completed_out_of_order, hung>>
    /\ UNCHANGED <<v_vars, c_vars, h_vars>>

\* The extract_text task of file i raises: FileNotFoundError where the path
\* does not exist, ValueError where its suffix is not .pdf, or the exception of
\* the service; the except branch logs and raises again.
ExtractTaskRaise(i) ==
    /\ extract_task_runs(i)
    /\ LET pdf_path == file_paths[i].path IN
       IF pdf_path \notin DOMAIN staged
       THEN /\ ext_result' = [ext_result EXCEPT ![i] = Raised("Exception")]
            /\ UNCHANGED <<ext_data, external_failures, n_calls>>
       ELSE IF suffix_lower[pdf_path] # DotPdf
       THEN /\ ext_result' = [ext_result EXCEPT ![i] = Raised("ValueError")]
            /\ UNCHANGED <<ext_data, external_failures, n_calls>>
       ELSE /\ \E kind \in ExceptionKinds :
                  ext_result' = [ext_result EXCEPT ![i] = Raised(kind)]
            /\ ext_data' = [ext_data EXCEPT ![i] = staged[pdf_path]]
            /\ external_failures' = external_failures \cup {"extract_text"}
            /\ n_calls' = one_more_call("extract", i)
    /\ ext_state' = [ext_state EXCEPT ![i] = "failed"]
    /\ done_order' = Append(done_order, i)
    /\ UNCHANGED <<o_pc, cls_state, cls_result, classifications, extracted_texts,
                   route_i, routed, documents, doc_origin, error,
                   completed_out_of_order, hung>>
    /\ UNCHANGED <<v_vars, c_vars, h_vars>>

\* The call of generate_content made by the extract_text task of file i never
\* returns.
ExtractTaskHang(i) ==
    /\ extract_task_runs(i)
    /\ path_accepted(file_paths[i].path)
    /\ ext_data' = [ext_data EXCEPT ![i] = staged[file_paths[i].path]]
    /\ n_calls' = one_more_call("extract", i)
    /\ ext_state' = [ext_state EXCEPT ![i] = "hung"]
    /\ hung' = hung \cup {"extract_text"}
    /\ UNCHANGED <<o_pc, cls_state, cls_result, classifications, ext_result, extracted_texts,
                   done_order, route_i, routed, documents, doc_origin, error,
                   external_failures, completed_out_of_order>>
    /\ UNCHANGED <<v_vars, c_vars, h_vars>>

\* The gather of the extraction tasks resumes process_claim: with the texts,
\* and the routing loop starts; or, where a task raised, with the exception of
\* the first task that did, which process_claim logs and raises again.
GatherExtractedTexts ==
    /\ o_pc = "extract"
    /\ event_loop_runs
    /\ gather_ready(ext_state)
    /\ IF \E i \in 1..Len(done_order) : ext_state[done_order[i]] = "failed"
       THEN LET first == CHOOSE i \in 1..Len(done_order) :
                            /\ ext_state[done_order[i]] = "failed"
                            /\ \A j \in 1..(i - 1) : ext_state[done_order[j]] # "failed"
            IN  /\ error' = ext_result[done_order[first]].kind
                /\ o_pc' = "raised"
                /\ FrameDropped
       ELSE /\ extracted_texts' = gather_results(ext_result, done_order)
            /\ o_pc' = "route"
            /\ route_i' = 1
            /\ done_order' = <<>>
            /\ UNCHANGED <<cls_state, cls_result, classifications, ext_state, ext_data,
                           ext_result, routed, documents, doc_origin, error,
                           completed_out_of_order, n_calls>>
    /\ UNCHANGED <<external_failures, hung>>
    /\ UNCHANGED <<v_vars, c_vars, h_vars>>

\* One turn of the routing loop up to the call the agent makes: the agent of
\* the classification is called with the text and the filename and calls
\* get_structured_output; a classification without agent yields None and the
\* loop goes on.
RouteToAgent ==
    /\ o_pc = "route"
    /\ event_loop_runs
    /\ route_i <= NFiles
    /\ LET classification == classifications[route_i]
           text == extracted_texts[route_i]
       IN  IF classification \in agent_map
           THEN /\ routed' = Append(routed, [file |-> route_i, doc_type |-> classification,
                                             text |-> text,
                                             filename |-> file_paths[route_i].filename])
                /\ n_calls' = one_more_call("agent", route_i)
                /\ o_pc' = "extracting"
                /\ UNCHANGED route_i
           ELSE /\ route_i' = route_i + 1
                /\ UNCHANGED <<routed, o_pc, n_calls>>
    /\ UNCHANGED <<cls_state, cls_result, classifications, ext_state, ext_data, ext_result,
                   extracted_texts, done_order, documents, doc_origin, error,
                   external_failures, completed_out_of_order, hung>>
    /\ UNCHANGED <<v_vars, c_vars, h_vars>>

\* get_structured_output returns and the agent builds its document, which the
\* loop appends.
AgentReturn ==
    /\ o_pc = "extracting"
    /\ event_loop_runs
    /\ \E doc_data \in ExtractedRecords(classifications[route_i]) :
          documents' = Append(documents, doc_data)
    /\ doc_origin' = Append(doc_origin, route_i)
    /\ route_i' = route_i + 1
    /\ o_pc' = "route"
    /\ UNCHANGED <<cls_state, cls_result, classifications, ext_state, ext_data, ext_result,
                   extracted_texts, done_order, routed, error, external_failures,
                   completed_out_of_order, hung, n_calls>>
    /\ UNCHANGED <<v_vars, c_vars, h_vars>>

\* get_structured_output raises, or its answer does not make a document: the
\* agent returns its sentinel record, which the loop appends.
AgentFallback ==
    /\ o_pc = "extracting"
    /\ event_loop_runs
    /\ documents' = Append(documents, Sentinel(classifications[route_i]))
    /\ doc_origin' = Append(doc_origin, route_i)
    /\ route_i' = route_i + 1
    /\ o_pc' = "route"
    /\ external_failures' = external_failures \cup {"get_structured_output"}
    /\ UNCHANGED <<cls_state, cls_result, classifications, ext_state, ext_data, ext_result,
                   extracted_texts, done_order, routed, error,
                   completed_out_of_order, hung, n_calls>>
    /\ UNCHANGED <<v_vars, c_vars, h_vars>>

\* The call of get_structured_output made by the agent never returns.
AgentHang ==
    /\ o_pc = "extracting"
    /\ event_loop_runs
    /\ hung' = hung \cup {"get_structured_output"}
    /\ UNCHANGED <<o_pc, cls_state, cls_result, classifications, ext_state, ext_data,
                   ext_result, extracted_texts, done_order, route_i, routed, documents,
                   doc_origin, error, external_failures, completed_out_of_order, n_calls>>
    /\ UNCHANGED <<v_vars, c_vars, h_vars>>

\* The routing loop is over: process_claim validates the documents, decides,
\* builds its response and returns it (none of these steps awaits anything);
\* the handler leaves the with block, which removes the temporary directory,
\* and returns the result.
ReturnResponse ==
    /\ h_pc = "processing"
    /\ o_pc = "route"
    /\ event_loop_runs
    /\ route_i > NFiles
    /\ \E validation \in validate(documents) :
          LET decision == make_decision(documents, validation) IN
          response' =
              HTTPResponse(200, <<>>,
                  <<ClaimProcessingResponse(documents, validation, decision,
                        [total_files_processed |-> Len(file_paths),
                         document_types_found |->
                            [k \in 1..Len(documents) |-> documents[k].type],
                         validation_status |->
                            IF validation.discrepancies = <<>>
                            THEN "passed" ELSE "issues_found"])>>)
    /\ staged' = <<>>
    /\ h_pc' = "done"
    /\ o_pc' = "returned"
    /\ FrameDropped
    /\ UNCHANGED <<orchestrator, files, file_paths, n_writes, orch_calls>>
    /\ UNCHANGED <<error, external_failures, hung>>
    /\ UNCHANGED <<v_vars, c_vars>>

\* The exception of process_claim reaches the handler: the temporary directory
\* is removed, a ValueError is answered with 400 and any other with 500.
HandleError ==
    /\ h_pc = "processing"
    /\ o_pc = "raised"
    /\ event_loop_runs
    /\ response' =
          IF error = "ValueError"
          THEN HTTPResponse(400, <<Lit(error)>>, <<>>)
          ELSE HTTPResponse(500, <<Lit("Internal server error: "), Lit(error)>>, <<>>)
    /\ staged' = <<>>
    /\ h_pc' = "done"
    /\ UNCHANGED <<orchestrator, files, file_paths, n_writes, orch_calls>>
    /\ UNCHANGED o_vars
    /\ UNCHANGED <<v_vars, c_vars>>

\* The response is sent; nothing of the request is kept.
Finish ==
    /\ h_pc = "done"
    /\ h_pc' = "idle"
    /\ files' = <<>>
    /\ staged' = <<>>
    /\ file_paths' = <<>>
    /\ n_writes' = 0
    /\ orch_calls' = 0
    /\ response' = NoResponse
    /\ o_pc' = "idle"
    /\ cls_state' = <<>>
    /\ cls_result' = <<>>
    /\ classifications' = <<>>
    /\ ext_state' = <<>>
    /\ ext_data' = <<>>
    /\ ext_result' = <<>>
    /\ extracted_texts' = <<>>
    /\ done_order' = <<>>
    /\ route_i' = 0
    /\ routed' = <<>>
    /\ documents' = <<>>
    /\ doc_origin' = <<>>
    /\ error' = "none"
    /\ external_failures' = {}
    /\ completed_out_of_order' = FALSE
    /\ hung' = {}
    /\ n_calls' = NoCalls
    /\ UNCHANGED <<orchestrator, v_vars, c_vars>>

\* A step of the handler or of the pipeline for the request under way.
RequestStep ==
    \/ RefuseUnavailable
    \/ ValidateUpload
    \/ StageFiles
    \/ CallOrchestrator
    \/ \E i \in 1..NFiles : ClassifyTaskRun(i)
    \/ \E i \in 1..NFiles : ClassifyTaskLlmReturn(i)
    \/ \E i \in 1..NFiles : ClassifyTaskLlmRaise(i)
    \/ GatherClassifications
    \/ \E i \in 1..NFiles : ExtractTaskReturn(i)
    \/ \E i \in 1..NFiles : ExtractTaskRaise(i)
    \/ GatherExtractedTexts
    \/ RouteToAgent
    \/ AgentReturn
    \/ AgentFallback
    \/ ReturnResponse
    \/ HandleError
    \/ Finish

\* An external call that never returns.
CallHangs ==
    \/ \E i \in 1..NFiles : ClassifyTaskLlmHang(i)
    \/ \E i \in 1..NFiles : ExtractTaskHang(i)
    \/ AgentHang

Next ==
    \/ ReceiveRequest
    \/ RequestStep
    \/ CallHangs

Spec == Init /\ [][Next]_vars

\* The event loop runs a coroutine that is ready, and a call that is not one
\* of those that never return does return or raise.
SpecLive == Spec /\ WF_vars(RequestStep)


\* ------------------------------------------------- claims on the pipeline

\* C7: in every run of process_claim and every interleaving of its tasks, no
\* text-extraction task starts before the classification of every file has
\* resolved, and no field extractor is called before the text extraction of
\* every file has resolved.
C7_StageBarrier ==
    /\ (\E i \in 1..Len(ext_state) : ext_state[i] # "pending") =>
          /\ Len(cls_state) = NFiles
          /\ \A j \in 1..NFiles : cls_state[j] = "done"
    /\ routed # <<>> =>
          /\ Len(ext_state) = NFiles
          /\ \A j \in 1..NFiles : ext_state[j] = "done"

\* An extractor is being called for the first file of a full batch whose
\* tasks completed out of input order.
C7_Witness ==
    /\ o_pc = "extracting"
    /\ NFiles = MaxFiles
    /\ completed_out_of_order
    /\ Len(routed) = 1

\* C8: for every completion order of the classify tasks and of the
\* extract_text tasks, the extractor called for the file at position i gets
\* the classification and the text produced for that file, and the documents
\* are in input-file order.
C8_PositionalJoin ==
    /\ \A k \in 1..Len(routed) :
          LET call == routed[k]
              i == call.file
          IN  /\ call.filename = files[i].filename
              /\ call.doc_type = cls_result[i]
              /\ classify_by_filename(files[i].filename) # "fallback" =>
                    call.doc_type = classify_by_filename(files[i].filename)
              /\ call.text = ext_result[i]
              /\ call.text.kind = "text" =>
                    call.text.data = staged[file_paths[i].path].upload
    /\ \A k \in 1..Len(documents) :
          /\ documents[k].type = cls_result[doc_origin[k]]
          /\ \A j \in 1..(k - 1) : doc_origin[j] < doc_origin[k]
    /\ (h_pc = "done" /\ response.status_code = 200) =>
          LET docs == response.body[1].documents IN
          /\ Len(docs) = Len(files)
          /\ \A k \in 1..Len(files) :
                classify_by_filename(files[k].filename) # "fallback" =>
                    docs[k].type = classify_by_filename(files[k].filename)

\* The last extractor call of a full batch whose first two files are of
\* different types, after tasks completed out of input order.
C8_Witness ==
    /\ o_pc = "extracting"
    /\ NFiles = MaxFiles
    /\ Len(routed) = NFiles
    /\ completed_out_of_order
    /\ cls_result[1] # cls_result[2]
    /\ ext_result[1] # ext_result[2]

\* C9: a failure of any external-collaborator call made during process_claim
\* (text extraction, a structured-extraction call, the classifier's LLM call)
\* is absorbed and never makes process_claim fail: the request still ends
\* with a ClaimProcessingResponse.
C9_ExternalFailuresAbsorbed ==
    (h_pc = "done" /\ external_failures # {}) =>
        /\ response.status_code = 200
        /\ Len(response.body) = 1

FileInvalid(file) ==
    \/ ~endswith(lower(file.filename), DotPdf)
    \/ file.size = 0
    \/ file.size > 25 * 1024 * 1024

BatchInvalid == Len(files) = 0 \/ \E i \in 1..Len(files) : FileInvalid(files[i])

\* C10: a batch that has no file, or holds a file with a non-.pdf name, zero
\* bytes or more than 25MB, is rejected before any file is staged and before
\* the orchestrator is invoked, and for a per-file violation the message of
\* the rejection holds the name of an offending file. (A service whose
\* orchestrator is None refuses the request before it looks at the batch.)
C10_InvalidBatchRejected ==
    (h_pc # "idle" /\ BatchInvalid) =>
        /\ h_pc \in {"received", "done"}
        /\ n_writes = 0
        /\ staged = <<>>
        /\ orch_calls = 0
        /\ o_pc = "idle"
        /\ h_pc = "done" =>
              /\ response.status_code = (IF orchestrator = "None" THEN 503 ELSE 400)
              /\ response.body = <<>>
        /\ (h_pc = "done" /\ response.status_code = 400 /\ Len(files) > 0) =>
              \E i \in 1..Len(files) :
                  /\ FileInvalid(files[i])
                  /\ files[i].filename \in Range(response.detail)

\* A batch whose first file is valid and whose last file is empty has been
\* rejected with a message that names the empty file.
C10_Witness ==
    /\ h_pc = "done"
    /\ response.status_code = 400
    /\ Len(files) = MaxFiles
    /\ ~FileInvalid(files[1])
    /\ files[Len(files)].size = 0
    /\ files[Len(files)].filename \in Range(response.detail)
    /\ n_writes = 0


\* ---------------------------------------------- claims on the whole service

\* The request of a service whose orchestrator is None has not been validated,
\* staged or handed to the pipeline, and is answered with the 503 response.
RefusedWhileUninitialized ==
    orchestrator = "None" =>
        /\ h_pc \in {"idle", "received", "done"}
        /\ n_writes = 0
        /\ staged = <<>>
        /\ file_paths = <<>>
        /\ orch_calls = 0
        /\ o_pc = "idle"
        /\ h_pc = "done" => response = HTTPResponse(503, DetailUnavailable, <<>>)

\* C11: if the initialization of the orchestrator failed at startup, every
\* process-claim request is refused with the 503 response and no input
\* validation, staging or pipeline stage runs for it, for the rest of the life
\* of the process: the service never leaves this state.
C11_DegradedForever ==
    /\ []RefusedWhileUninitialized
    /\ [][orchestrator = "None" => orchestrator' = "None"]_vars

\* A full batch of valid files has been refused by a service whose
\* orchestrator is None.
C11_Witness ==
    /\ orchestrator = "None"
    /\ h_pc = "done"
    /\ response.status_code = 503
    /\ Len(files) = MaxFiles
    /\ ~BatchInvalid

\* C12: every request outcome is classified by its cause: an invalid batch is
\* answered with 400, a failure raised inside the pipeline with 500 whatever
\* the kind of the exception, an uninitialized service with 503; a failure of
\* the pipeline is never reported as an invalid-input rejection.
C12_OutcomeByCause ==
    h_pc = "done" =>
        /\ orchestrator = "None" => response.status_code = 503
        /\ (orchestrator # "None" /\ BatchInvalid) => response.status_code = 400
        /\ error # "none" => response.status_code = 500
        /\ response.status_code = 400 => BatchInvalid

Sentinels == {BillSentinel, DischargeSentinel, IDCardSentinel}

\* C13: whenever an extractor fell back to its sentinel record, validate flags
\* the claim (a discrepancy or a missing document) and the decision is not
\* approved, for each of the three sentinels and whatever the other documents
\* hold.
C13_SentinelFlagged ==
    (/\ v_pc = "decided"
     /\ \E i \in 1..Len(arg_documents) : arg_documents[i] \in Sentinels) =>
        /\ \/ ret_validation.discrepancies # <<>>
           \/ ret_validation.missing_documents # <<>>
        /\ ret_decision.status # "approved"

\* C14: where decide is given the ValidationResult validate computed from the
\* same documents, rule 4 (rejected, "Incomplete documentation", 0.8) is never
\* reached: a result without missing documents means the three types are
\* present.
C14_Rule4Unreachable ==
    /\ (v_pc \in {"validated", "decided"} /\ ret_validation.missing_documents = <<>>) =>
          required_types \subseteq doc_types(arg_documents)
    /\ v_pc = "decided" =>
          /\ ret_decision # ClaimDecision("rejected", <<ReasonIncomplete>>, 80)
          /\ ret_decision.reason # <<ReasonIncomplete>>

\* Rule 3 has been reached, and its test of the types passed, for the result
\* validate returned.
C14_Witness ==
    /\ v_pc = "decided"
    /\ ret_validation = ValidationResult(<<>>, <<>>)
    /\ ret_decision = ClaimDecision("approved", <<ReasonApproved>>, 95)
    /\ doc_types(arg_documents) = required_types

\* C15: every run of process_claim that returns a response holds exactly one
\* document per input file, made by exactly one extractor call, and the type
\* of the document at position i is the classification of file i: classify
\* returns one of the three tags and the extractors never raise, so neither
\* skip branch of the router drops a document.
C15_OneDocumentPerFile ==
    /\ o_pc \in {"route", "extracting"} =>
          /\ \A i \in 1..NFiles : classifications[i] \in agent_map
          /\ Len(documents) = route_i - 1
          /\ Len(routed) = (IF o_pc = "extracting" THEN route_i ELSE route_i - 1)
          /\ \A k \in 1..Len(routed) : routed[k].file = k
          /\ \A k \in 1..Len(documents) :
                /\ doc_origin[k] = k
                /\ documents[k].type = classifications[k]
    /\ (h_pc = "done" /\ response.status_code = 200) =>
          LET result == response.body[1] IN
          /\ Len(result.documents) = Len(files)
          /\ result.processing_metadata.total_files_processed = Len(files)
          /\ \A k \in 1..Len(files) :
                /\ result.documents[k].type \in agent_map
                /\ classify_by_filename(files[k].filename) # "fallback" =>
                      result.documents[k].type = classify_by_filename(files[k].filename)

\* A response for a full batch in which the classifier's LLM call failed for
\* one file and the structured extraction failed for one.
C15_Witness ==
    /\ h_pc = "done"
    /\ response.status_code = 200
    /\ Len(files) = MaxFiles
    /\ Len(response.body[1].documents) = MaxFiles
    /\ {"get_completion", "get_structured_output"} \subseteq external_failures

\* C16: for every accepted batch, also one in which two uploads carry the
\* same filename, each entry handed to the pipeline names its own staged file,
\* which holds the content of that upload: no two extraction tasks read the
\* same file and no upload's content is replaced by another's.
C16_OwnStagedFile ==
    h_pc \in {"staged", "processing"} =>
        /\ \A i \in 1..Len(file_paths) :
              /\ file_paths[i].path \in DOMAIN staged
              /\ staged[file_paths[i].path] = files[i].content
        /\ \A i, j \in 1..Len(file_paths) :
              i # j => file_paths[i].path # file_paths[j].path
        /\ \A i \in 1..Len(ext_data) :
              ext_data[i] # NoData => ext_data[i] = files[i].content

Stages == {"classify", "extract", "agent"}

\* While a call has not returned, process_claim has not ended and the request
\* has no response.
NoResponseWhileCallHangs ==
    hung # {} =>
        /\ h_pc = "processing"
        /\ o_pc \notin {"returned", "raised"}
        /\ response = NoResponse

\* No stage issues more than one external call for a file.
AtMostOneCallPerFile ==
    \A stage \in Stages : \A i \in 1..Len(n_calls[stage]) : n_calls[stage][i] <= 1

ProcessClaimRuns == o_pc \in {"classify", "extract", "route", "extracting"}

ProcessClaimEnded == o_pc \in {"returned", "raised"}

\* C17: process_claim has no timeout, cancellation or retry: if every external
\* call returns (a result or a failure), process_claim ends with a response or
\* an error, each external call being issued at most once per file per stage;
\* if one external call never returns, process_claim never ends and no
\* response is produced. (A run of process_claim ends unless one of its calls
\* hangs, and from the hanging of a call on it has not ended.)
C17_EndsIffCallsReturn ==
    /\ []NoResponseWhileCallHangs
    /\ []AtMostOneCallPerFile
    /\ ProcessClaimRuns ~> (ProcessClaimEnded \/ hung # {})

\* In a full batch the text extraction of one file has raised and the call
\* made for a later file does not return: process_claim waits.
C17_Witness ==
    /\ NFiles = MaxFiles
    /\ o_pc = "extract"
    /\ hung = {"extract_text"}
    /\ \E i \in 1..NFiles : ext_state[i] = "failed" /\ n_calls.extract[i] = 1
    /\ ext_state[NFiles] = "hung"
    /\ \E i \in 1..NFiles : n_calls.classify[i] = 1

=============================================================================
